---------------------------- MODULE Spec2Model ----------------------------
(***************************************************************************)
(* Model of the alphograph editor: the path generator                      *)
(* (utils/circularSystem), the canvas camera and pointer handlers          *)
(* (components/CurveCanvas) and the layer operations of App.               *)
(*                                                                         *)
(* Numbers.  The program computes with IEEE doubles.  The model computes   *)
(* with exact rationals <<n, d>> (d > 0, lowest terms), i.e. it idealises  *)
(* away floating-point rounding; cos and sin of whole degrees are the      *)
(* three-decimal rationals of CosTable.                                    *)
(*                                                                         *)
(* Text.  A text is a sequence of characters, a character is its Unicode   *)
(* code point (65 = "A", 32 = " ", 223 = the sharp s, ...).                *)
(*                                                                         *)
(* React.  Every handler is one action: the state updates it issues, the   *)
(* re-render, and the effects that the re-render triggers (the auto-fit    *)
(* effect of CurveCanvas) are part of the action.                          *)
(***************************************************************************)
EXTENDS Integers, Sequences, FiniteSets, TLC

VARIABLES
    layers,         \* App: useState<Layer[]>, a sequence of Layer records
    activeLayerId,  \* App: useState<string>
    viewBox,        \* CurveCanvas: "vx vy vw vh", as the 4 numbers it encodes
    isAutoFit,      \* CurveCanvas: useState(true)
    dragState,      \* CurveCanvas: None or Some([id, startX, startY])
    panState,       \* CurveCanvas: None or Some([startX, startY, startViewBox])
    listener,       \* window: None or Some([panState, dragState]), the closure of
                    \* the attached handleGlobalMouseMove
    mouse,          \* environment: the pointer's client position <<x, y>>
    zoomLog,        \* history: the zooms so far, [kind, before, after]
    moveLog,        \* history: the pointer-moves handled while panning/dragging
    nEdits,         \* history: the number of edits of the layer list so far
    memoRuns,       \* history: the number of runs of the preparedLayers factory
    isLooping,      \* App: useState(false)
    loopIntervalRef,\* App: useRef<number | null>(null), None or Some(timer id)
    loopSeedRef,    \* App: useRef<string>('')
    loopIndexRef,   \* App: useRef<number>(0)
    timers,         \* environment: the live intervals, [id, target layer id]
    nTicks,         \* history: the number of interval callbacks run so far
    loopStart,      \* history: [id, len] of the layer the last loop started on
    genArgs,        \* generatePathData call: [text, segmentLength]
    genResult       \* generatePathData call: None or Some(returned object)

appVars == <<layers, activeLayerId>>
canvasVars == <<viewBox, isAutoFit, dragState, panState>>
histVars == <<mouse, zoomLog, moveLog, nEdits, memoRuns>>
loopVars == <<isLooping, loopIntervalRef, loopSeedRef, loopIndexRef, timers, nTicks, loopStart>>
genVars == <<genArgs, genResult>>
vars == <<layers, activeLayerId, viewBox, isAutoFit, dragState, panState, listener, mouse, zoomLog, moveLog, nEdits, memoRuns, genArgs, genResult, isLooping, loopIntervalRef, loopSeedRef, loopIndexRef, timers, nTicks, loopStart>>

\* null / undefined and a present value
None == <<>>
Some(v) == <<v>>

\* Where a computed value is used more than once it is bound to a variable
\* ranging over a one-element set (x \in {e}), so that it is computed once, as
\* the program computes it, before the expression that uses it.

---------------------------------------------------------------------------
\* Bounds of the model

\* longest text handed to generatePathData in SpecGen
MaxLen == 3
\* most layers the layer list grows to
MaxLayers == 2
\* most camera- or layer-changing events (zooms, pointer-moves handled while
\* panning or dragging, edits of the layer list) in one behaviour
MaxEvents == 2
\* most interval callbacks run in one behaviour of the loop specification
MaxTicks == 3

---------------------------------------------------------------------------
\* Exact rational arithmetic standing for the program's number arithmetic

Abs(i) == IF i < 0 THEN -i ELSE i

RECURSIVE GCD(_, _)
GCD(a, b) == IF b = 0 THEN a ELSE GCD(b, a % b)

\* the rational n/d in lowest terms with a positive denominator (d # 0)
Rat(n, d) ==
    CHOOSE r \in {<<((IF d < 0 THEN -1 ELSE 1) * n) \div g, Abs(d) \div g>> : g \in {GCD(Abs(n), Abs(d))}} : TRUE

RI(i) == <<i, 1>>
RNeg(a) == <<-a[1], a[2]>>
\* a + b over the least common denominator
RAdd(a, b) ==
    CHOOSE r \in {Rat(a[1] * (b[2] \div g) + b[1] * (a[2] \div g), (a[2] \div g) * b[2]) : g \in {GCD(a[2], b[2])}} : TRUE
RSub(a, b) == RAdd(a, RNeg(b))
\* a * b, cancelling across before multiplying
RMul(a, b) ==
    CHOOSE r \in {Rat((a[1] \div g1) * (b[1] \div g2), (a[2] \div g2) * (b[2] \div g1)) :
                     g1 \in {GCD(Abs(a[1]), b[2])}, g2 \in {GCD(Abs(b[1]), a[2])}} : TRUE
\* a / b, b # 0
RDiv(a, b) == RMul(a, IF b[1] < 0 THEN <<-b[2], -b[1]>> ELSE <<b[2], b[1]>>)
\* a < b, decided on the quotient a / b so that common factors cancel first
RLt(a, b) ==
    IF b[1] = 0 THEN a[1] < 0
    ELSE \E q \in {RDiv(a, b)} : IF b[1] > 0 THEN q[1] < q[2] ELSE q[1] > q[2]
\* Math.min, Math.max
RMin(a, b) == IF RLt(b, a) THEN b ELSE a
RMax(a, b) == IF RLt(a, b) THEN b ELSE a

\* 1000 * cos(d degrees), rounded, for d = 0..90
CosTable == <<1000, 1000, 999, 999, 998, 996, 995, 993, 990, 988, 985, 982, 978, 974, 970, 966, 961, 956, 951, 946, 940, 934, 927, 921, 914, 906, 899, 891, 883, 875, 866, 857, 848, 839, 829, 819, 809, 799, 788, 777, 766, 755, 743, 731, 719, 707, 695, 682, 669, 656, 643, 629, 616, 602, 588, 574, 559, 545, 530, 515, 500, 485, 469, 454, 438, 423, 407, 391, 375, 358, 342, 326, 309, 292, 276, 259, 242, 225, 208, 191, 174, 156, 139, 122, 105, 87, 70, 52, 35, 17, 0>>

\* Math.cos(degree * Math.PI / 180)
cosDeg(degree) ==
    LET m == degree % 360
    IN  IF m <= 90 THEN Rat(CosTable[m + 1], 1000)
        ELSE IF m <= 180 THEN Rat(-CosTable[180 - m + 1], 1000)
        ELSE IF m <= 270 THEN Rat(-CosTable[m - 180 + 1], 1000)
        ELSE Rat(CosTable[360 - m + 1], 1000)

\* Math.sin(degree * Math.PI / 180)
sinDeg(degree) == cosDeg(degree - 90)

---------------------------------------------------------------------------
\* utils/circularSystem: the path generator

DEFAULT_SEGMENT_LENGTH == 10

\* String.prototype.toUpperCase on one character, as UTF-16 code units:
\* a-z map to A-Z; the sharp s (223) maps to "SS", the dotless i (305) to "I",
\* the long s (383) to "S"; digits, punctuation and A-Z map to themselves.
toUpperCase(char) ==
    IF char >= 97 /\ char <= 122 THEN <<char - 32>>
    ELSE IF char = 223 THEN <<83, 83>>
    ELSE IF char = 305 THEN <<73>>
    ELSE IF char = 383 THEN <<83>>
    ELSE <<char>>

\* Math.round of the non-negative quotient n / d
RoundDiv(n, d) == (2 * n + d) \div (2 * d)

\* a mapping that rounds down
getDegreeForCharFloor(char) ==
    LET code == toUpperCase(char)[1]
    IN  IF code >= 65 /\ code <= 90
        THEN Some(((code - 65) * 2 * 360) \div 52)
        ELSE None

\* getDegreeForChar: Some(degree) for a mapped character, None for null
getDegreeForChar(char) ==
    LET code == toUpperCase(char)[1]
    IN  IF code >= 65 /\ code <= 90
        THEN LET letterIndex == code - 65
                 degreeIndex == letterIndex * 2
             IN  Some(RoundDiv(degreeIndex * 360, 52))
        ELSE None

calculateNextPoint(x, y, degree, length) ==
    [x |-> RAdd(x, RMul(RI(length), cosDeg(degree))),
     y |-> RSub(y, RMul(RI(length), sinDeg(degree)))]

\* let min_x = 0; let max_x = 0; let min_y = 0; let max_y = 0;
boundsInit == [min_x |-> RI(0), max_x |-> RI(0), min_y |-> RI(0), max_y |-> RI(0)]

\* a bounds update that loses the upper edges
boundsUpdateNoMax(b, x, y) ==
    [min_x |-> RMin(b.min_x, x), max_x |-> b.max_x,
     min_y |-> RMin(b.min_y, y), max_y |-> b.max_y]

\* min_x = Math.min(min_x, currentX); ... max_y = Math.max(max_y, currentY);
boundsUpdate(b, x, y) ==
    [min_x |-> RMin(b.min_x, x), max_x |-> RMax(b.max_x, x),
     min_y |-> RMin(b.min_y, y), max_y |-> RMax(b.max_y, y)]

\* the locals of generatePathData before the loop
genStart ==
    [currentX |-> RI(0), currentY |-> RI(0), currentAngle |-> 0,
     points |-> <<[x |-> RI(0), y |-> RI(0), char |-> None, angle |-> 0, isSpace |-> FALSE]>>,
     pathD |-> <<[op |-> "M", x |-> RI(0), y |-> RI(0)]>>,
     b |-> boundsInit]

\* one iteration of "for (const char of text)"
genStep(st, char, segmentLength) ==
    LET isSpace == char = 32
        degree == IF isSpace THEN None ELSE getDegreeForChar(char)
    IN  IF ~isSpace /\ degree = None
        THEN st
        ELSE LET angle == IF isSpace THEN st.currentAngle ELSE st.currentAngle + degree[1]
             IN  CHOOSE r \in {[currentX |-> next.x, currentY |-> next.y, currentAngle |-> angle,
                                points |-> Append(st.points, [x |-> next.x, y |-> next.y, char |-> Some(char), angle |-> angle, isSpace |-> isSpace]),
                                pathD |-> Append(st.pathD, [op |-> IF isSpace THEN "M" ELSE "L", x |-> next.x, y |-> next.y]),
                                b |-> boundsUpdate(st.b, next.x, next.y)] :
                                   next \in {calculateNextPoint(st.currentX, st.currentY, angle, segmentLength)}} : TRUE

\* "for (const char of text)" over text[lo .. hi], in order: the first half of
\* the range, then the second half from the state the first half left
RECURSIVE genLoop(_, _, _, _, _)
genLoop(st, text, lo, hi, segmentLength) ==
    IF lo > hi THEN st
    ELSE IF lo = hi THEN genStep(st, text[lo], segmentLength)
    ELSE CHOOSE r \in {genLoop(half, text, ((lo + hi) \div 2) + 1, hi, segmentLength) :
                          half \in {genLoop(st, text, lo, (lo + hi) \div 2, segmentLength)}} : TRUE

generatePathData(text, segmentLength) ==
    CHOOSE r \in {[pathData |-> st.pathD,
                    points |-> st.points,
                    endPoint |-> [x |-> st.currentX, y |-> st.currentY],
                    bounds |-> [minX |-> st.b.min_x, maxX |-> st.b.max_x,
                                minY |-> st.b.min_y, maxY |-> st.b.max_y,
                                width |-> RSub(st.b.max_x, st.b.min_x),
                                height |-> RSub(st.b.max_y, st.b.min_y)]] :
                       st \in {genLoop(genStart, text, 1, Len(text), segmentLength)}} : TRUE

---------------------------------------------------------------------------
\* Inputs of the generator specification

\* "A", "n", "Z", " ", "1", sharp s
GenChars == {65, 110, 90, 32, 49, 223}
GenLengths == {2, DEFAULT_SEGMENT_LENGTH}

RECURSIVE TextsUpTo(_, _)
TextsUpTo(chars, n) ==
    IF n = 0 THEN {<<>>}
    ELSE LET shorter == TextsUpTo(chars, n - 1)
         IN  shorter \cup {Append(t, c) : t \in shorter, c \in chars}

---------------------------------------------------------------------------
\* App: the layer list and its operations

\* 'Hello World'
HelloWorld == <<72, 101, 108, 108, 111, 32, 87, 111, 114, 108, 100>>

\* useState<Layer[]>([...]); color is the index into COLORS
InitialLayers ==
    <<[id |-> 1, name |-> <<"Base Layer", 0>>, text |-> HelloWorld, color |-> 0,
       x |-> RI(0), y |-> RI(0), locked |-> FALSE, visible |-> TRUE,
       segmentLength |-> DEFAULT_SEGMENT_LENGTH]>>

\* the ids crypto.randomUUID() draws from, and the initial id '1'
LayerIds == 1 .. MaxLayers

\* COLORS.length
NumColors == 10

LayerIdsOf(ls) == {ls[i].id : i \in 1 .. Len(ls)}

\* layers.find(l => l.id === id): None when there is none
findLayer(ls, id) ==
    IF \E i \in 1 .. Len(ls) : ls[i].id = id
    THEN Some(ls[CHOOSE i \in 1 .. Len(ls) : ls[i].id = id /\ \A j \in 1 .. (i - 1) : ls[j].id # id])
    ELSE None

\* const activeLayer = layers.find(l => l.id === activeLayerId) || layers[0]
activeLayer == IF findLayer(layers, activeLayerId) # None THEN findLayer(layers, activeLayerId)[1] ELSE layers[1]

\* { ...l, ...updates }
Merge(l, updates) == [f \in DOMAIN l |-> IF f \in DOMAIN updates THEN updates[f] ELSE l[f]]

\* prev.map(l => l.id === id ? { ...l, ...updates } : l)
handleUpdateLayer(ls, id, updates) ==
    [i \in 1 .. Len(ls) |-> IF ls[i].id = id THEN Merge(ls[i], updates) ELSE ls[i]]

\* prev.map(l => l.id !== id ? l : { ...l, x: l.x + dx, y: l.y + dy })
handleLayerMove(ls, id, dx, dy) ==
    [i \in 1 .. Len(ls) |->
        IF ls[i].id # id THEN ls[i]
        ELSE Merge(ls[i], [x |-> RAdd(ls[i].x, dx), y |-> RAdd(ls[i].y, dy)])]

\* layers.filter(l => l.id !== id)
RECURSIVE filterOut(_, _)
filterOut(ls, id) ==
    IF ls = <<>> THEN <<>>
    ELSE IF Head(ls).id = id THEN filterOut(Tail(ls), id)
    ELSE <<Head(ls)>> \o filterOut(Tail(ls), id)

\* a position that puts the box's corner, not its centre, at the origin
centerOffsetCorner(bounds) == [x |-> RNeg(bounds.minX), y |-> RNeg(bounds.minY)]

\* the position handleCenterLayer and the loop's closure branch give a layer
centerOffset(bounds) ==
    [x |-> RNeg(RAdd(bounds.minX, RDiv(bounds.width, RI(2)))),
     y |-> RNeg(RAdd(bounds.minY, RDiv(bounds.height, RI(2))))]

---------------------------------------------------------------------------
\* CurveCanvas: derived data and the auto-fit effect

\* layers.map(layer => !layer.visible ? null : { ...layer, pathData, bounds })
preparedLayers(ls) ==
    [i \in 1 .. Len(ls) |->
        IF ~ls[i].visible THEN None
        ELSE CHOOSE r \in {Some([layer |-> ls[i], pathData |-> g.pathData, bounds |-> g.bounds]) :
                               g \in {generatePathData(ls[i].text, ls[i].segmentLength)}} : TRUE]

\* a default that is not centred
defaultContentBoundsOffCentre ==
    [minX |-> RI(0), maxX |-> RI(100), minY |-> RI(0), maxY |-> RI(100),
     width |-> RI(100), height |-> RI(100)]

\* the default when no layer is visible
defaultContentBounds ==
    [minX |-> RI(-50), maxX |-> RI(50), minY |-> RI(-50), maxY |-> RI(50),
     width |-> RI(100), height |-> RI(100)]

\* one visible layer's box lo joins the box so far
foldLayer(acc, lo) ==
    IF acc = None THEN Some(lo)
    ELSE Some([minX |-> RMin(acc[1].minX, lo.minX), maxX |-> RMax(acc[1].maxX, lo.maxX),
               minY |-> RMin(acc[1].minY, lo.minY), maxY |-> RMax(acc[1].maxY, lo.maxY)])

\* the forEach of contentBounds; acc = None stands for the +-Infinity start
RECURSIVE foldBounds(_, _, _)
foldBounds(prepared, i, acc) ==
    IF i > Len(prepared) THEN acc
    ELSE CHOOSE r \in {foldBounds(prepared, i + 1, next) :
                          next \in {IF p = None THEN acc
                                    ELSE foldLayer(acc, [minX |-> RAdd(p[1].bounds.minX, p[1].layer.x),
                                                         maxX |-> RAdd(p[1].bounds.maxX, p[1].layer.x),
                                                         minY |-> RAdd(p[1].bounds.minY, p[1].layer.y),
                                                         maxY |-> RAdd(p[1].bounds.maxY, p[1].layer.y)]) :
                                       p \in {prepared[i]}}} : TRUE

contentBounds(prepared) ==
    CHOOSE r \in {IF acc = None THEN defaultContentBounds
                   ELSE [minX |-> acc[1].minX, maxX |-> acc[1].maxX, minY |-> acc[1].minY, maxY |-> acc[1].maxY,
                         width |-> RSub(acc[1].maxX, acc[1].minX), height |-> RSub(acc[1].maxY, acc[1].minY)] :
                      acc \in {foldBounds(prepared, 1, None)}} : TRUE

\* the rectangle the auto-fit effect writes
autoFitViewBox(cb) ==
    CHOOSE r \in {<<RSub(cb.minX, paddingX), RSub(cb.minY, paddingY),
                     RMax(RAdd(cb.width, RMul(paddingX, RI(2))), RI(100)),
                     RMax(RAdd(cb.height, RMul(paddingY, RI(2))), RI(100))>> :
                      paddingX \in {RMax(RI(100), RMul(cb.width, Rat(15, 100)))},
                      paddingY \in {RMax(RI(100), RMul(cb.height, Rat(15, 100)))}} : TRUE

\* useEffect(() => { if (!isAutoFit) return; ... setViewBox(...) }, [contentBounds, isAutoFit]):
\* the view box after the effect has run with flag auto, layers ls, view box vb
autoFitEffect(auto, ls, vb) ==
    IF ~auto THEN vb
    ELSE CHOOSE r \in {autoFitViewBox(cb) : cb \in {contentBounds(preparedLayers(ls))}} : TRUE

\* useState("-50 -50 100 100")
InitialViewBox == <<RI(-50), RI(-50), RI(100), RI(100)>>

---------------------------------------------------------------------------
\* Inputs of the handlers

\* e.button: 0 primary, 1 middle, 2 right
Buttons == {0, 1, 2}
\* e.deltaY of a wheel event
WheelDeltas == {-100, 100}
\* client positions of the pointer
Positions == {<<0, 0>>, <<30, 60>>}
\* svg.getBoundingClientRect(): the rendered size of the canvas, in pixels
RectSizes == {[width |-> 300, height |-> 300], [width |-> 600, height |-> 300]}
\* texts typed into the textarea: "", "A"
TextInputs == {<<>>, <<65>>}
\* values of the Line Length slider (min 2, max 50)
SegmentLengths == {DEFAULT_SEGMENT_LENGTH, 50}

---------------------------------------------------------------------------
\* CurveCanvas: camera arithmetic

\* a wheel zoom that keeps the origin of the view box
wheelViewBoxFromOrigin(vb, deltaY) ==
    LET zoomFactor == IF deltaY > 0 THEN Rat(11, 10) ELSE Rat(9, 10)
    IN  <<vb[1], vb[2], RMul(vb[3], zoomFactor), RMul(vb[4], zoomFactor)>>

\* handleWheel: the view box after one wheel event
wheelViewBox(vb, deltaY) ==
    LET zoomFactor == IF deltaY > 0 THEN Rat(11, 10) ELSE Rat(9, 10)
    IN  CHOOSE r \in {<<RAdd(vb[1], RDiv(RSub(vb[3], newW), RI(2))),
                         RAdd(vb[2], RDiv(RSub(vb[4], newH), RI(2))), newW, newH>> :
                          newW \in {RMul(vb[3], zoomFactor)}, newH \in {RMul(vb[4], zoomFactor)}} : TRUE

\* Zoom In button: `${vx + vw*0.1} ${vy + vh*0.1} ${vw*0.8} ${vh*0.8}`
zoomInViewBox(vb) ==
    <<RAdd(vb[1], RMul(vb[3], Rat(1, 10))), RAdd(vb[2], RMul(vb[4], Rat(1, 10))),
      RMul(vb[3], Rat(8, 10)), RMul(vb[4], Rat(8, 10))>>

\* a zoom-out that shifts the origin by a fifth instead of a tenth
zoomOutViewBoxShifted(vb) ==
    <<RSub(vb[1], RMul(vb[3], Rat(2, 10))), RSub(vb[2], RMul(vb[4], Rat(2, 10))),
      RMul(vb[3], Rat(12, 10)), RMul(vb[4], Rat(12, 10))>>

\* Zoom Out button: `${vx - vw*0.1} ${vy - vh*0.1} ${vw*1.2} ${vh*1.2}`
zoomOutViewBox(vb) ==
    <<RSub(vb[1], RMul(vb[3], Rat(1, 10))), RSub(vb[2], RMul(vb[4], Rat(1, 10))),
      RMul(vb[3], Rat(12, 10)), RMul(vb[4], Rat(12, 10))>>

\* a pan that moves the current view box instead of the snapshot
panViewBoxFromCurrent(p, vb, x, y, rect) ==
    LET dxPx == x - p.startX
        dyPx == y - p.startY
        scaleX == RDiv(vb[3], RI(rect.width))
        scaleY == RDiv(vb[4], RI(rect.height))
    IN  <<RSub(vb[1], RMul(RI(dxPx), scaleX)), RSub(vb[2], RMul(RI(dyPx), scaleY)), vb[3], vb[4]>>

\* handleGlobalMouseMove, pan branch: the view box for the pointer at (x, y),
\* pan state p, current view box vb and canvas size rect
panViewBox(p, vb, x, y, rect) ==
    LET dxPx == x - p.startX
        dyPx == y - p.startY
        svb == p.startViewBox
        scaleX == RDiv(svb[3], RI(rect.width))
        scaleY == RDiv(svb[4], RI(rect.height))
        newVx == RSub(svb[1], RMul(RI(dxPx), scaleX))
        newVy == RSub(svb[2], RMul(RI(dyPx), scaleY))
    IN  <<newVx, newVy, svb[3], svb[4]>>

\* svg.getScreenCTM() of <svg viewBox={viewBox} preserveAspectRatio="xMidYMid meet">:
\* one uniform scale, the smaller of the two axis ratios
getScreenCTM(vb, rect) ==
    CHOOSE r \in {[a |-> s, d |-> s] :
                      s \in {RMin(RDiv(RI(rect.width), vb[3]), RDiv(RI(rect.height), vb[4]))}} : TRUE

\* useEffect(() => { if (panState || dragState) window.addEventListener(
\* 'mousemove', handleGlobalMouseMove) ... }, [panState, dragState, ...]): the
\* listener attached after a render with pan state p and drag state d; the
\* useCallback closes over the p and d of that render
attachListener(p, d) == IF p # None \/ d # None THEN Some([panState |-> p, dragState |-> d]) ELSE None

\* a layer can be hit by the pointer when it is rendered and its path has a stroke
hasStroke(pathData) == \E i \in 1 .. Len(pathData) : pathData[i].op = "L"
Hittable(l) == l.visible /\ hasStroke(generatePathData(l.text, l.segmentLength).pathData)
\* the pointer can be over the hit target of layer id
layerUnderPointer(id) == \E i \in 1 .. Len(layers) : layers[i].id = id /\ Hittable(layers[i])

\* the behaviour may take one more zoom, handled move or layer edit
Budget == Len(zoomLog) + Len(moveLog) + nEdits < MaxEvents

---------------------------------------------------------------------------
\* CurveCanvas: handlers

\* handleMouseDown of the container, for a pointer-down that reaches it
handleMouseDown(button, altKey) ==
    IF button = 1 \/ button = 2 \/ (button = 0 /\ altKey)
    THEN /\ isAutoFit' = FALSE
         /\ panState' = Some([startX |-> mouse[1], startY |-> mouse[2], startViewBox |-> viewBox])
    ELSE UNCHANGED <<isAutoFit, panState>>

\* a pointer-down on the canvas background
MouseDownBackground(button, altKey) ==
    /\ handleMouseDown(button, altKey)
    /\ UNCHANGED <<layers, activeLayerId, viewBox, dragState, histVars, genVars, loopVars>>
    /\ listener' = attachListener(panState', dragState')

\* a layer handler without the lock check
onLayerMouseDownNoLock(id, button, altKey) ==
    /\ findLayer(layers, id) # None
    /\ IF button # 0
       THEN handleMouseDown(button, altKey) /\ UNCHANGED dragState
       ELSE /\ dragState' = Some([id |-> id, startX |-> mouse[1], startY |-> mouse[2]])
            /\ UNCHANGED <<isAutoFit, panState>>
    /\ UNCHANGED <<layers, activeLayerId, viewBox, histVars, genVars, loopVars>>
    /\ listener' = attachListener(panState', dragState')

\* onLayerMouseDown on the <g> of layer id; an event it does not stop bubbles
\* to the container's handleMouseDown
onLayerMouseDown(id, button, altKey) ==
    /\ findLayer(layers, id) # None
    /\ LET layerLocked == findLayer(layers, id)[1].locked
       IN  IF layerLocked \/ button # 0
           THEN handleMouseDown(button, altKey) /\ UNCHANGED dragState
           ELSE /\ dragState' = Some([id |-> id, startX |-> mouse[1], startY |-> mouse[2]])
                /\ UNCHANGED <<isAutoFit, panState>>
    /\ UNCHANGED <<layers, activeLayerId, viewBox, histVars, genVars, loopVars>>
    /\ listener' = attachListener(panState', dragState')

\* handleGlobalMouseMove for the pointer moving to (x, y); the window listener
\* is attached only while panState or dragState is set
handleGlobalMouseMove(x, y, rect) ==
    /\ <<x, y>> # mouse
    /\ mouse' = <<x, y>>
    /\ (panState # None \/ dragState # None) => Budget
    /\ IF panState # None
       THEN /\ viewBox' = panViewBox(panState[1], viewBox, x, y, rect)
            /\ moveLog' = Append(moveLog, [mode |-> "pan", x |-> x, y |-> y])
            /\ UNCHANGED <<layers, dragState, memoRuns>>
       ELSE IF dragState # None
       THEN LET dx == x - dragState[1].startX
                dy == y - dragState[1].startY
            IN  \E ctm \in {getScreenCTM(viewBox, rect)} :
                \E scaledDx \in {RDiv(RI(dx), ctm.a)}, scaledDy \in {RDiv(RI(dy), ctm.d)} :
                \E moved \in {handleLayerMove(layers, dragState[1].id, scaledDx, scaledDy)} :
                /\ layers' = moved
                /\ viewBox' = autoFitEffect(isAutoFit, moved, viewBox)
                /\ dragState' = Some([id |-> dragState[1].id, startX |-> x, startY |-> y])
                /\ moveLog' = Append(moveLog, [mode |-> "drag", x |-> x, y |-> y])
                /\ memoRuns' = memoRuns + 1
       ELSE UNCHANGED <<layers, viewBox, dragState, moveLog, memoRuns>>
    /\ UNCHANGED <<activeLayerId, isAutoFit, panState, zoomLog, nEdits, genVars, loopVars>>
    /\ listener' = attachListener(panState', dragState')

\* handleGlobalMouseMove as the attached listener runs it for the pointer
\* moving to (x, y), before React has rendered again: panState and dragState
\* are those of the listener's closure; onLayerMove and setDragState are
\* functional updates, applied to the latest state
mouseMoveListener(x, y, rect) ==
    /\ listener # None
    /\ <<x, y>> # mouse
    /\ Budget
    /\ mouse' = <<x, y>>
    /\ LET c == listener[1]
       IN  IF c.panState # None
           THEN /\ viewBox' = panViewBox(c.panState[1], viewBox, x, y, rect)
                /\ moveLog' = Append(moveLog, [mode |-> "pan", x |-> x, y |-> y])
                /\ UNCHANGED <<layers, dragState>>
           ELSE LET dx == x - c.dragState[1].startX
                    dy == y - c.dragState[1].startY
                IN  \E ctm \in {getScreenCTM(viewBox, rect)} :
                    \E scaledDx \in {RDiv(RI(dx), ctm.a)}, scaledDy \in {RDiv(RI(dy), ctm.d)} :
                    /\ layers' = handleLayerMove(layers, c.dragState[1].id, scaledDx, scaledDy)
                    /\ dragState' = IF dragState # None
                                    THEN Some([id |-> dragState[1].id, startX |-> x, startY |-> y])
                                    ELSE None
                    /\ moveLog' = Append(moveLog, [mode |-> "drag", x |-> x, y |-> y])
                    /\ UNCHANGED viewBox
    /\ UNCHANGED <<activeLayerId, isAutoFit, panState, listener, zoomLog, nEdits, memoRuns, genVars, loopVars>>

\* React renders the updates of the pointer-moves handled since the last
\* render and runs the effects: auto-fit for the moved layers, and the window
\* listener is attached again with the new closure
Render ==
    /\ \/ listener # attachListener(panState, dragState)
       \/ viewBox # autoFitEffect(isAutoFit, layers, viewBox)
    /\ listener' = attachListener(panState, dragState)
    /\ viewBox' = autoFitEffect(isAutoFit, layers, viewBox)
    /\ memoRuns' = memoRuns + 1
    /\ UNCHANGED <<layers, activeLayerId, isAutoFit, dragState, panState, mouse, zoomLog, moveLog, nEdits, genVars, loopVars>>

\* a pointer-up that only ends the pan
handleGlobalMouseUpPanOnly ==
    /\ panState' = None
    /\ UNCHANGED <<layers, activeLayerId, viewBox, isAutoFit, dragState, histVars, genVars, loopVars>>
    /\ listener' = attachListener(panState', dragState')

\* handleGlobalMouseUp
handleGlobalMouseUp ==
    /\ panState' = None
    /\ dragState' = None
    /\ UNCHANGED <<layers, activeLayerId, viewBox, isAutoFit, histVars, genVars, loopVars>>
    /\ listener' = attachListener(panState', dragState')

\* a wheel handler that leaves auto-fit on
handleWheelKeepsAutoFit(deltaY) ==
    /\ Budget
    /\ viewBox' = wheelViewBox(viewBox, deltaY)
    /\ zoomLog' = Append(zoomLog, [kind |-> IF deltaY > 0 THEN "wheelOut" ELSE "wheelIn", before |-> viewBox, after |-> viewBox'])
    /\ UNCHANGED <<layers, activeLayerId, isAutoFit, dragState, panState, mouse, moveLog, nEdits, memoRuns, genVars, listener, loopVars>>

\* handleWheel
handleWheel(deltaY) ==
    /\ Budget
    /\ isAutoFit' = FALSE
    /\ viewBox' = wheelViewBox(viewBox, deltaY)
    /\ zoomLog' = Append(zoomLog, [kind |-> IF deltaY > 0 THEN "wheelOut" ELSE "wheelIn", before |-> viewBox, after |-> viewBox'])
    /\ UNCHANGED <<layers, activeLayerId, dragState, panState, mouse, moveLog, nEdits, memoRuns, genVars, listener, loopVars>>

\* the Zoom In button
ZoomInButton ==
    /\ Budget
    /\ isAutoFit' = FALSE
    /\ viewBox' = zoomInViewBox(viewBox)
    /\ zoomLog' = Append(zoomLog, [kind |-> "buttonIn", before |-> viewBox, after |-> viewBox'])
    /\ UNCHANGED <<layers, activeLayerId, dragState, panState, mouse, moveLog, nEdits, memoRuns, genVars, listener, loopVars>>

\* the Zoom Out button
ZoomOutButton ==
    /\ Budget
    /\ isAutoFit' = FALSE
    /\ viewBox' = zoomOutViewBox(viewBox)
    /\ zoomLog' = Append(zoomLog, [kind |-> "buttonOut", before |-> viewBox, after |-> viewBox'])
    /\ UNCHANGED <<layers, activeLayerId, dragState, panState, mouse, moveLog, nEdits, memoRuns, genVars, listener, loopVars>>

\* the Auto-Fit View button: setIsAutoFit(true), then the effect
AutoFitButton ==
    /\ isAutoFit' = TRUE
    /\ viewBox' = IF isAutoFit THEN viewBox ELSE autoFitEffect(TRUE, layers, viewBox)
    /\ UNCHANGED <<layers, activeLayerId, dragState, panState, histVars, genVars, listener, loopVars>>

---------------------------------------------------------------------------
\* App: the loop controller's timer.  window.setInterval returns an id that no
\* live interval has; a live interval is [id, target], target being the
\* activeLayerId its callback closed over.

\* window.setInterval: the id of the new interval
newTimerId(ts) == CHOOSE n \in 1 .. (Cardinality(ts) + 1) : \A t \in ts : t.id # n

\* a clearInterval that leaves the interval running
clearIntervalKeeps(ts, ref) == ts

\* if (loopIntervalRef.current) window.clearInterval(loopIntervalRef.current)
clearInterval(ts, ref) == IF ref = None THEN ts ELSE {t \in ts : t.id # ref[1]}

\* the body of the loop effect, run with flag looping and active layer target
loopEffectBody(looping, target, ts, ref) ==
    IF looping
    THEN [timers |-> ts \cup {[id |-> newTimerId(ts), target |-> target]}, ref |-> Some(newTimerId(ts))]
    ELSE [timers |-> clearInterval(ts, ref), ref |-> ref]

\* a loop effect without cleanup
loopEffectNoCleanup(looping, target, ts, ref) == loopEffectBody(looping, target, ts, ref)

\* useEffect(..., [isLooping, activeLayerId]) when a dependency has changed:
\* the cleanup of the previous run, then the body
loopEffect(looping, target, ts, ref) == loopEffectBody(looping, target, clearInterval(ts, ref), ref)

\* the loop effect after a handler that leaves isLooping alone and sets the
\* active layer id to newId
loopEffectOnSelect(newId) ==
    /\ IF newId = activeLayerId
       THEN UNCHANGED <<timers, loopIntervalRef>>
       ELSE \E e \in {loopEffect(isLooping, newId, timers, loopIntervalRef)} :
               timers' = e.timers /\ loopIntervalRef' = e.ref
    /\ UNCHANGED <<isLooping, loopSeedRef, loopIndexRef, nTicks, loopStart>>

---------------------------------------------------------------------------
\* App: handlers.  Each setLayers gives CurveCanvas a new layers array, so the
\* auto-fit effect runs as part of the action.

SetLayers(newLayers) ==
    /\ Budget
    /\ layers' = newLayers
    /\ viewBox' = autoFitEffect(isAutoFit, newLayers, viewBox)
    /\ nEdits' = nEdits + 1
    /\ memoRuns' = memoRuns + 1
    /\ UNCHANGED <<isAutoFit, dragState, panState, mouse, zoomLog, moveLog, genVars, listener>>

\* the eye button of a layer row
ToggleVisible(id) ==
    /\ findLayer(layers, id) # None
    /\ SetLayers(handleUpdateLayer(layers, id, [visible |-> ~findLayer(layers, id)[1].visible]))
    /\ UNCHANGED <<activeLayerId, loopVars>>

\* the lock button of a layer row
ToggleLocked(id) ==
    /\ findLayer(layers, id) # None
    /\ SetLayers(handleUpdateLayer(layers, id, [locked |-> ~findLayer(layers, id)[1].locked]))
    /\ UNCHANGED <<activeLayerId, loopVars>>

\* the textarea of the active layer, disabled={isLooping}
EditText(text) ==
    /\ ~isLooping
    /\ text # activeLayer.text
    /\ SetLayers(handleUpdateLayer(layers, activeLayer.id, [text |-> text]))
    /\ UNCHANGED <<activeLayerId, loopVars>>

\* the Line Length slider of the active layer
SetSegmentLength(v) ==
    /\ v # activeLayer.segmentLength
    /\ SetLayers(handleUpdateLayer(layers, activeLayer.id, [segmentLength |-> v]))
    /\ UNCHANGED <<activeLayerId, loopVars>>

\* handleAddLayer
handleAddLayer ==
    /\ Len(layers) < MaxLayers
    /\ \E newId \in LayerIds \ (LayerIdsOf(layers) \cup {dragState[i].id : i \in 1 .. Len(dragState)} \cup {loopStart.id}) :
          LET newLayer == [id |-> newId, name |-> <<"Layer", Len(layers) + 1>>, text |-> <<>>,
                           color |-> Len(layers) % NumColors,
                           x |-> RI(0), y |-> RI(0), locked |-> FALSE, visible |-> TRUE,
                           segmentLength |-> DEFAULT_SEGMENT_LENGTH]
          IN  /\ SetLayers(Append(layers, newLayer))
              /\ activeLayerId' = newId
              /\ loopEffectOnSelect(newId)

\* a delete that leaves the active layer id alone
handleDeleteLayerKeepsActive(id) ==
    /\ findLayer(layers, id) # None
    /\ IF Len(layers) = 1
       THEN UNCHANGED vars
       ELSE /\ SetLayers(filterOut(layers, id))
            /\ UNCHANGED <<activeLayerId, loopVars>>

\* a delete that also removes the last layer
handleDeleteLayerLastToo(id) ==
    /\ findLayer(layers, id) # None
    /\ LET newLayers == filterOut(layers, id)
       IN  /\ SetLayers(newLayers)
           /\ activeLayerId' = IF activeLayerId = id /\ newLayers # <<>> THEN newLayers[1].id ELSE activeLayerId
           /\ loopEffectOnSelect(IF activeLayerId = id /\ newLayers # <<>> THEN newLayers[1].id ELSE activeLayerId)

\* handleDeleteLayer
handleDeleteLayer(id) ==
    /\ findLayer(layers, id) # None
    /\ IF Len(layers) = 1
       THEN UNCHANGED vars
       ELSE LET newLayers == filterOut(layers, id)
            IN  /\ SetLayers(newLayers)
                /\ activeLayerId' = IF activeLayerId = id THEN newLayers[1].id ELSE activeLayerId
                /\ loopEffectOnSelect(IF activeLayerId = id THEN newLayers[1].id ELSE activeLayerId)

\* handleCenterLayer, from the Center button of the active layer
handleCenterLayer ==
    LET id == activeLayer.id
        layer == findLayer(layers, id)[1]
    IN  /\ Budget
        /\ \E c \in {centerOffset(generatePathData(layer.text, layer.segmentLength).bounds)} :
              SetLayers(handleUpdateLayer(layers, id, [x |-> c.x, y |-> c.y]))
        /\ UNCHANGED <<activeLayerId, loopVars>>

\* a click on a layer row: setActiveLayerId(layer.id)
SelectLayer(id) ==
    /\ findLayer(layers, id) # None
    /\ id # activeLayerId
    /\ activeLayerId' = id
    /\ loopEffectOnSelect(id)
    /\ UNCHANGED <<layers, canvasVars, histVars, genVars, listener>>

---------------------------------------------------------------------------
\* App: the loop controller

\* the floor of the closed-loop length test and the safety ceiling
MIN_LOOP_LENGTH == 40
SAFETY_CEILING == 8000

\* a length test without the floor
minLenSeedOnly(seed) == Len(seed) * 4

\* const minLen = Math.max(seed.length * 4, 40)
minLen(seed) == IF Len(seed) * 4 > MIN_LOOP_LENGTH THEN Len(seed) * 4 ELSE MIN_LOOP_LENGTH

RAbs(a) == <<Abs(a[1]), a[2]>>

\* dist < 0.5, dist = Math.sqrt(endPoint.x ** 2 + endPoint.y ** 2): both
\* coordinates are within 1/2 and the squares sum to less than 1/4
nearOrigin(endPoint) ==
    /\ RLt(RAbs(endPoint.x), Rat(1, 2))
    /\ RLt(RAbs(endPoint.y), Rat(1, 2))
    /\ RLt(RAdd(RMul(endPoint.x, endPoint.x), RMul(endPoint.y, endPoint.y)), Rat(1, 4))

\* a safety break that never fires
overCeilingNever(newText) == FALSE

\* if (newText.length > 8000)
overCeiling(newText) == Len(newText) > SAFETY_CEILING

\* stopLoop called with flag looping, and the loop effect that runs when the
\* flag has changed: the live intervals and the ref afterwards
stopLoop(looping, ts, ref) ==
    IF looping
    THEN loopEffect(FALSE, activeLayerId, clearInterval(ts, ref), None)
    ELSE [timers |-> clearInterval(ts, ref), ref |-> None]

\* startLoop; activeLayer is never undefined
startLoop ==
    IF isLooping
    THEN UNCHANGED loopVars
    ELSE /\ loopSeedRef' = activeLayer.text
         /\ loopIndexRef' = 0
         /\ isLooping' = TRUE
         /\ \E e \in {loopEffect(TRUE, activeLayerId, timers, loopIntervalRef)} :
               timers' = e.timers /\ loopIntervalRef' = e.ref
         /\ loopStart' = [id |-> activeLayer.id, len |-> Len(activeLayer.text)]
         /\ UNCHANGED nTicks

\* a Play Loop button that is never disabled
PlayLoopButtonAlwaysEnabled ==
    /\ ~isLooping
    /\ startLoop
    /\ UNCHANGED <<appVars, canvasVars, histVars, genVars, listener>>

\* the Play Loop button: rendered when !isLooping, disabled={!activeLayer.text}
PlayLoopButton ==
    /\ ~isLooping
    /\ activeLayer.text # <<>>
    /\ startLoop
    /\ UNCHANGED <<appVars, canvasVars, histVars, genVars, listener>>

\* the Stop button: rendered when isLooping, onClick={stopLoop}
StopButton ==
    /\ isLooping
    /\ isLooping' = FALSE
    /\ \E e \in {stopLoop(isLooping, timers, loopIntervalRef)} :
          timers' = e.timers /\ loopIntervalRef' = e.ref
    /\ UNCHANGED <<appVars, canvasVars, histVars, genVars, listener, loopSeedRef, loopIndexRef, nTicks, loopStart>>

\* the updater of the interval callback, for a target layer that exists:
\* the new layers and whether stopLoop was called
tickUpdate(ls, target, seed, charToAdd) ==
    LET currentLayer == findLayer(ls, target)[1]
        newText == Append(currentLayer.text, charToAdd)
    IN  CHOOSE r \in {IF Len(newText) > minLen(seed) /\ nearOrigin(g.endPoint)
                       THEN [layers |-> [i \in 1 .. Len(ls) |->
                                           IF ls[i].id = target
                                           THEN Merge(ls[i], [text |-> newText, x |-> centerOffset(g.bounds).x, y |-> centerOffset(g.bounds).y])
                                           ELSE ls[i]],
                             stopped |-> TRUE, closed |-> TRUE]
                       ELSE [layers |-> [i \in 1 .. Len(ls) |->
                                           IF ls[i].id = target THEN Merge(ls[i], [text |-> newText]) ELSE ls[i]],
                             stopped |-> overCeiling(newText), closed |-> FALSE] :
                          g \in {generatePathData(newText, currentLayer.segmentLength)}} : TRUE

\* the callback of the live interval t
tick(t) ==
    /\ nTicks' = nTicks + 1
    /\ IF loopSeedRef = <<>>
       THEN UNCHANGED <<layers, viewBox, memoRuns, isLooping, loopIntervalRef, loopIndexRef, timers>>
       ELSE /\ loopIndexRef' = loopIndexRef + 1
            /\ IF findLayer(layers, t.target) = None
               THEN UNCHANGED <<layers, viewBox, memoRuns, isLooping, loopIntervalRef, timers>>
               ELSE \E u \in {tickUpdate(layers, t.target, loopSeedRef, loopSeedRef[(loopIndexRef % Len(loopSeedRef)) + 1])} :
                       /\ layers' = u.layers
                       /\ viewBox' = autoFitEffect(isAutoFit, u.layers, viewBox)
                       /\ memoRuns' = memoRuns + 1
                       /\ IF u.stopped
                          THEN /\ isLooping' = FALSE
                               /\ \E e \in {stopLoop(isLooping, timers, loopIntervalRef)} :
                                     timers' = e.timers /\ loopIntervalRef' = e.ref
                          ELSE UNCHANGED <<isLooping, loopIntervalRef, timers>>
    /\ UNCHANGED <<activeLayerId, isAutoFit, dragState, panState, mouse, zoomLog, moveLog, nEdits, genVars, listener, loopSeedRef, loopStart>>

\* one of the live intervals fires
Tick ==
    /\ nTicks < MaxTicks
    /\ \E t \in timers : tick(t)

---------------------------------------------------------------------------
\* The editor

Init ==
    /\ layers = InitialLayers
    /\ activeLayerId = 1
    /\ isAutoFit = TRUE
    /\ viewBox = autoFitEffect(TRUE, InitialLayers, InitialViewBox)
    /\ dragState = None
    /\ panState = None
    /\ listener = None
    /\ mouse = <<0, 0>>
    /\ zoomLog = <<>>
    /\ moveLog = <<>>
    /\ nEdits = 0
    /\ memoRuns = 1
    /\ isLooping = FALSE
    /\ loopIntervalRef = None
    /\ loopSeedRef = <<>>
    /\ loopIndexRef = 0
    /\ timers = {}
    /\ nTicks = 0
    /\ loopStart = [id |-> 0, len |-> 0]
    /\ genArgs = [text |-> <<>>, segmentLength |-> DEFAULT_SEGMENT_LENGTH]
    /\ genResult = None

Next ==
    \/ \E b \in Buttons, a \in BOOLEAN : MouseDownBackground(b, a)
    \/ \E id \in LayerIds : layerUnderPointer(id) /\ \E b \in Buttons, a \in BOOLEAN : onLayerMouseDown(id, b, a)
    \/ \E p \in Positions, r \in RectSizes : handleGlobalMouseMove(p[1], p[2], r)
    \/ handleGlobalMouseUp
    \/ \E d \in WheelDeltas : handleWheel(d)
    \/ ZoomInButton
    \/ ZoomOutButton
    \/ AutoFitButton
    \/ \E id \in LayerIds : ToggleVisible(id)
    \/ \E id \in LayerIds : ToggleLocked(id)
    \/ \E t \in TextInputs : EditText(t)
    \/ \E v \in SegmentLengths : SetSegmentLength(v)
    \/ handleAddLayer
    \/ \E id \in LayerIds : handleDeleteLayer(id)
    \/ handleCenterLayer
    \/ \E id \in LayerIds : SelectLayer(id)

Spec == Init /\ [][Next]_vars

---------------------------------------------------------------------------
\* The generator, applied to every text of up to MaxLen characters

InitGen ==
    /\ layers = InitialLayers
    /\ activeLayerId = 1
    /\ isAutoFit = TRUE
    /\ viewBox = autoFitEffect(TRUE, InitialLayers, InitialViewBox)
    /\ dragState = None
    /\ panState = None
    /\ listener = None
    /\ mouse = <<0, 0>>
    /\ zoomLog = <<>>
    /\ moveLog = <<>>
    /\ nEdits = 0
    /\ memoRuns = 1
    /\ isLooping = FALSE
    /\ loopIntervalRef = None
    /\ loopSeedRef = <<>>
    /\ loopIndexRef = 0
    /\ timers = {}
    /\ nTicks = 0
    /\ loopStart = [id |-> 0, len |-> 0]
    /\ genArgs \in [text : TextsUpTo(GenChars, MaxLen), segmentLength : GenLengths]
    /\ genResult = None

Generate ==
    /\ genResult = None
    /\ genResult' = Some(generatePathData(genArgs.text, genArgs.segmentLength))
    /\ UNCHANGED <<layers, activeLayerId, canvasVars, histVars, genArgs, listener, loopVars>>

NextGen == Generate

SpecGen == InitGen /\ [][NextGen]_vars

---------------------------------------------------------------------------
\* The loop controller, on layer lists the editor reaches by typing

\* n times the character c
Repeat(c, n) == [i \in 1 .. n |-> c]
\* "A" followed by n - 1 times "1"
Filler(n) == [i \in 1 .. n |-> IF i = 1 THEN 65 ELSE 49]

\* texts of the only layer: "", "N", "AB", and two that end at the ceiling
LoopTexts == {<<>>, <<78>>, <<65, 66>>, Filler(SAFETY_CEILING - 1), Filler(SAFETY_CEILING)}
\* text of an added second layer: 39 times "N"
LongTexts == {Repeat(78, MIN_LOOP_LENGTH - 1)}

\* the layer handleAddLayer appends as layer number n, after text was typed
AddedLayer(id, n, text) ==
    [id |-> id, name |-> <<"Layer", n>>, text |-> text, color |-> (n - 1) % NumColors,
     x |-> RI(0), y |-> RI(0), locked |-> FALSE, visible |-> TRUE,
     segmentLength |-> DEFAULT_SEGMENT_LENGTH]

LoopLayerLists ==
    {<<Merge(InitialLayers[1], [text |-> t])>> : t \in LoopTexts}
        \cup {<<Merge(InitialLayers[1], [text |-> <<78>>]), AddedLayer(2, 2, t)>> : t \in LongTexts}

InitLoop ==
    /\ layers \in LoopLayerLists
    /\ activeLayerId = 1
    /\ isAutoFit = TRUE
    /\ viewBox = autoFitEffect(TRUE, layers, InitialViewBox)
    /\ dragState = None
    /\ panState = None
    /\ listener = None
    /\ mouse = <<0, 0>>
    /\ zoomLog = <<>>
    /\ moveLog = <<>>
    /\ nEdits = 0
    /\ memoRuns = 1
    /\ isLooping = FALSE
    /\ loopIntervalRef = None
    /\ loopSeedRef = <<>>
    /\ loopIndexRef = 0
    /\ timers = {}
    /\ nTicks = 0
    /\ loopStart = [id |-> 0, len |-> 0]
    /\ genArgs = [text |-> <<>>, segmentLength |-> DEFAULT_SEGMENT_LENGTH]
    /\ genResult = None

NextLoop ==
    \/ PlayLoopButton
    \/ StopButton
    \/ Tick
    \/ \E id \in LayerIds : SelectLayer(id)
    \/ handleAddLayer
    \/ \E id \in LayerIds : handleDeleteLayer(id)

SpecLoop == InitLoop /\ [][NextLoop]_vars

---------------------------------------------------------------------------
\* Dragging and panning with the render apart from the pointer-move: a
\* pointer-move is handled by the listener that is attached at that moment,
\* and the render that attaches the next one comes some time later

\* one or two layers with a stroke
DragLayerLists ==
    {InitialLayers} \cup {<<Merge(InitialLayers[1], [text |-> t]), AddedLayer(2, 2, u)>> : t \in {<<78>>, <<65, 66>>}, u \in {<<78>>, <<90>>}}

InitDrag ==
    /\ layers \in DragLayerLists
    /\ activeLayerId = 1
    /\ isAutoFit = TRUE
    /\ viewBox = autoFitEffect(TRUE, layers, InitialViewBox)
    /\ dragState = None
    /\ panState = None
    /\ listener = None
    /\ mouse = <<0, 0>>
    /\ zoomLog = <<>>
    /\ moveLog = <<>>
    /\ nEdits = 0
    /\ memoRuns = 1
    /\ isLooping = FALSE
    /\ loopIntervalRef = None
    /\ loopSeedRef = <<>>
    /\ loopIndexRef = 0
    /\ timers = {}
    /\ nTicks = 0
    /\ loopStart = [id |-> 0, len |-> 0]
    /\ genArgs = [text |-> <<>>, segmentLength |-> DEFAULT_SEGMENT_LENGTH]
    /\ genResult = None

NextDrag ==
    \/ \E id \in LayerIds : layerUnderPointer(id) /\ \E b \in Buttons, a \in BOOLEAN : onLayerMouseDown(id, b, a)
    \/ \E p \in Positions, r \in RectSizes : mouseMoveListener(p[1], p[2], r)
    \/ Render
    \/ handleGlobalMouseUp

SpecDrag == InitDrag /\ [][NextDrag]_vars

---------------------------------------------------------------------------
\* One loop left to run: the interval fires every 15 ms for as long as it is
\* live, so its callback is taken again and again (weak fairness); whether
\* and when a button is pressed is up to the user

\* layer lists whose loop ends within a few dozen ticks
LiveLayerLists ==
    {ls \in LoopLayerLists : ls[1].text \in {<<78>>, Filler(SAFETY_CEILING - 1), Filler(SAFETY_CEILING)}}

InitLoopLive == InitLoop /\ layers \in LiveLayerLists

\* the Play Loop button, pressed for the first time
FirstPlay == loopStart.id = 0 /\ PlayLoopButton

\* one of the live intervals fires
AnyTick == \E t \in timers : tick(t)

NextLoopLive ==
    \/ FirstPlay
    \/ StopButton
    \/ AnyTick

\* a callback of a live interval runs: the steps of NextLoopLive that count a
\* tick are the AnyTick steps, and one is possible exactly while an interval
\* is live
TimerFires == timers # {} /\ nTicks' = nTicks + 1

SpecLoopLive == InitLoopLive /\ [][NextLoopLive]_vars /\ WF_nTicks(TimerFires)

---------------------------------------------------------------------------
\* Properties of the interaction modes

Idle == dragState = None /\ panState = None
\* a step that handles a pointer-move in pan or drag mode
HandledMove == Len(moveLog') > Len(moveLog)
\* a step that zooms, by the wheel or by a button
ZoomStep == Len(zoomLog') > Len(zoomLog)
\* a step that starts a pan
PanStart == panState' # None /\ panState' # panState
LastMove == moveLog[Len(moveLog)]

\* C1: in every reachable state the drag state and the pan state are not both set
ModesExclusive == ~(dragState # None /\ panState # None)

\* C2: a pointer-move processed in dragging-layer mode leaves the view box as
\* it was, with auto-fit enabled or disabled
DragKeepsViewBox ==
    [][(dragState # None /\ panState = None /\ HandledMove) => viewBox' = viewBox]_vars

\* C3: a pointer-up leaves neither drag state nor pan state set (no step ends
\* one mode and keeps the other), and a pointer-move in idle mode changes
\* neither the view box nor the layers
PointerUpEndsInteraction ==
    [][/\ handleGlobalMouseUp => Idle'
       /\ ((panState # None /\ panState' = None) \/ (dragState # None /\ dragState' = None)) => Idle'
       /\ (Idle /\ mouse' # mouse) => (viewBox' = viewBox /\ layers' = layers)]_vars

\* a drag or pan has handled a move, a pointer-up has ended it, and the
\* pointer has moved again since
MovedAfterPointerUp ==
    /\ Idle
    /\ moveLog # <<>>
    /\ mouse # <<LastMove.x, LastMove.y>>

\* the layer id is locked and its geometry is under the pointer
LockedUnderPointer(id) ==
    /\ \E i \in 1 .. Len(layers) : layers[i].id = id /\ layers[i].locked
    /\ layerUnderPointer(id)

\* C4: from idle, a primary-button pointer-down on the geometry of a locked
\* layer (with or without Alt) changes nothing: drag state, pan state, view
\* box, auto-fit flag and layers stay as they were
LockedPrimaryDownIgnored ==
    [][\A id \in LayerIds, a \in BOOLEAN :
          (Idle /\ onLayerMouseDown(id, 0, a) /\ LockedUnderPointer(id))
              => UNCHANGED <<dragState, panState, viewBox, isAutoFit, layers>>]_vars

\* C4, amended: from idle, a primary-button pointer-down without Alt on the
\* geometry of a locked layer changes nothing; with Alt it starts a pan (and
\* so turns auto-fit off) and never a drag, and leaves view box and layers
LockedPlainPrimaryDownIgnored ==
    [][\A id \in LayerIds :
          /\ (Idle /\ onLayerMouseDown(id, 0, FALSE) /\ LockedUnderPointer(id))
                => UNCHANGED <<dragState, panState, viewBox, isAutoFit, layers>>
          /\ (Idle /\ onLayerMouseDown(id, 0, TRUE) /\ LockedUnderPointer(id))
                => /\ panState' # None
                   /\ ~isAutoFit'
                   /\ UNCHANGED <<dragState, viewBox, layers>>]_vars

\* idle, with a locked layer whose geometry can be pressed
IdleOverLockedLayer == Idle /\ \E id \in LayerIds : LockedUnderPointer(id)

\* C5: every pan start and every zoom turns the auto-fit flag off; only the
\* Auto-Fit button turns it on again; while it stays off, only a zoom or a
\* pan move changes the view box, and no change of the layers does
AutoFitOffUntilCommand ==
    [][/\ (PanStart \/ ZoomStep) => ~isAutoFit'
       /\ (~isAutoFit /\ isAutoFit') => AutoFitButton
       /\ (~isAutoFit /\ ~isAutoFit' /\ viewBox' # viewBox) => (ZoomStep \/ (panState # None /\ HandledMove))
       /\ (~isAutoFit /\ layers' # layers) => viewBox' = viewBox]_vars

\* auto-fit is off after a zoom of the initial framing, the content bounds
\* have changed since, and the view box is still the one the zoom left
EditedWhileAutoFitOff ==
    /\ ~isAutoFit
    /\ zoomLog # <<>>
    /\ zoomLog[1].before = autoFitEffect(TRUE, InitialLayers, InitialViewBox)
    /\ viewBox = zoomLog[Len(zoomLog)].after
    /\ contentBounds(preparedLayers(layers)) # contentBounds(preparedLayers(InitialLayers))

---------------------------------------------------------------------------
\* Properties of the camera

\* zooms i and i + 1 are a zoom in followed at once by its paired zoom out
PairedZoom(i) ==
    /\ zoomLog[i + 1].before = zoomLog[i].after
    /\ \/ zoomLog[i].kind = "wheelIn" /\ zoomLog[i + 1].kind = "wheelOut"
       \/ zoomLog[i].kind = "buttonIn" /\ zoomLog[i + 1].kind = "buttonOut"

\* the centre of a view box
Centre(vb) == <<RAdd(vb[1], RDiv(vb[3], RI(2))), RAdd(vb[2], RDiv(vb[4], RI(2)))>>

\* C6: a zoom in followed by the paired zoom out returns the view box to its
\* origin, width and height before the zoom in
ZoomPairRestores ==
    \A i \in 1 .. Len(zoomLog) - 1 : PairedZoom(i) => zoomLog[i + 1].after = zoomLog[i].before

\* C6, amended: a zoom in followed by the paired zoom out keeps the centre of
\* the view box and scales its width and height by 0.99 (wheel, 0.9 * 1.1) or
\* by 0.96 (buttons, 0.8 * 1.2)
ZoomPairKeepsCentre ==
    \A i \in 1 .. Len(zoomLog) - 1 :
        PairedZoom(i) =>
            LET before == zoomLog[i].before
                after == zoomLog[i + 1].after
                f == IF zoomLog[i].kind = "wheelIn" THEN Rat(99, 100) ELSE Rat(96, 100)
            IN  /\ Centre(after) = Centre(before)
                /\ after[3] = RMul(before[3], f)
                /\ after[4] = RMul(before[4], f)

\* the last two zooms were a zoom in and its paired zoom out, and the view box
\* is the one they left
ZoomedInThenOut == Len(zoomLog) >= 2 /\ PairedZoom(Len(zoomLog) - 1) /\ viewBox = zoomLog[Len(zoomLog)].after

\* C7: in a pan session, a pointer-move that brings the pointer back to where
\* the pan started sets the view box to exactly the view box at pan start,
\* whatever the moves before it and the pixel size of the canvas
PanReverseRestores ==
    [][(panState # None /\ HandledMove /\ mouse' = <<panState[1].startX, panState[1].startY>>)
          => viewBox' = panState[1].startViewBox]_vars

\* a pan that started on the initial framing has moved the pointer away and
\* then back by the opposite displacement
PannedAwayAndBack ==
    /\ panState # None
    /\ zoomLog = <<>> /\ nEdits = 0
    /\ panState[1].startViewBox = autoFitEffect(TRUE, InitialLayers, InitialViewBox)
    /\ Len(moveLog) = 2
    /\ moveLog[1].mode = "pan" /\ moveLog[2].mode = "pan"
    /\ <<moveLog[1].x, moveLog[1].y>> # <<panState[1].startX, panState[1].startY>>
    /\ <<moveLog[2].x, moveLog[2].y>> = <<panState[1].startX, panState[1].startY>>
    /\ mouse = <<panState[1].startX, panState[1].startY>>
    /\ viewBox = panState[1].startViewBox

NoVisibleLayer(ls) == \A i \in 1 .. Len(ls) : ~ls[i].visible

\* C8: when no layer is visible and auto-fit is enabled, the view box the
\* auto-fit effect produces (on a change of the layers, or when auto-fit is
\* turned on) is at least 100 wide and 100 high and centred at the origin
AutoFitOfNothing ==
    [][(isAutoFit' /\ NoVisibleLayer(layers') /\ (layers' # layers \/ ~isAutoFit))
          => /\ ~RLt(viewBox'[3], RI(100))
             /\ ~RLt(viewBox'[4], RI(100))
             /\ Centre(viewBox') = <<RI(0), RI(0)>>]_vars

\* every layer is hidden and auto-fit has framed the empty canvas
AutoFitFramedNothing ==
    /\ isAutoFit
    /\ nEdits > 0
    /\ NoVisibleLayer(layers)
    /\ viewBox = <<RI(-150), RI(-150), RI(300), RI(300)>>

---------------------------------------------------------------------------
\* Properties of the generator

\* a space or one of the letters A-Z, a-z
IsValidChar(c) == c = 32 \/ (c >= 65 /\ c <= 90) \/ (c >= 97 /\ c <= 122)
CountValid(text) == Cardinality({i \in 1 .. Len(text) : IsValidChar(text[i])})

\* C9: generate returns 1 + n points, n the number of characters of the text
\* that are a space or a letter A-Z / a-z, and as many path commands
PointsPerValidChar ==
    genResult # None =>
        /\ Len(genResult[1].points) = 1 + CountValid(genArgs.text)
        /\ Len(genResult[1].pathData) = 1 + CountValid(genArgs.text)

RMinOf(S) == CHOOSE m \in S : \A v \in S : ~RLt(v, m)
RMaxOf(S) == CHOOSE m \in S : \A v \in S : ~RLt(m, v)
\* the x and the y coordinates of points[from], points[from + 1], ... (1-based)
Xs(points, from) == {points[i].x : i \in from .. Len(points)}
Ys(points, from) == {points[i].y : i \in from .. Len(points)}
\* the bounds are the extremes of the points from index from on
BoundsAreExtremes(r, from) ==
    /\ r.bounds.minX = RMinOf(Xs(r.points, from))
    /\ r.bounds.maxX = RMaxOf(Xs(r.points, from))
    /\ r.bounds.minY = RMinOf(Ys(r.points, from))
    /\ r.bounds.maxY = RMaxOf(Ys(r.points, from))
    /\ r.bounds.width = RSub(r.bounds.maxX, r.bounds.minX)
    /\ r.bounds.height = RSub(r.bounds.maxY, r.bounds.minY)

\* C10: the bounds are the minimum and maximum coordinates of the emitted
\* points only; the start point at the origin contributes only when no
\* character is valid, and the box is then zero-size at the origin
BoundsOverEmittedPoints ==
    genResult # None =>
        BoundsAreExtremes(genResult[1], IF Len(genResult[1].points) > 1 THEN 2 ELSE 1)

\* C10, amended: the bounds are the minimum and maximum coordinates of all
\* the points, the start point at the origin included
BoundsOverAllPoints == genResult # None => BoundsAreExtremes(genResult[1], 1)

\* a result whose box reaches the origin only because of the start point
StartPointWidensBounds ==
    /\ genResult # None
    /\ Len(genResult[1].points) > 1
    /\ RLt(RI(0), RMinOf(Xs(genResult[1].points, 2)))
    /\ genResult[1].bounds.minX = RI(0)
    /\ RLt(RI(0), genResult[1].bounds.maxX)

\* a letter A-Z or a-z, and its index 0..25 in the alphabet
IsLetter(c) == (c >= 65 /\ c <= 90) \/ (c >= 97 /\ c <= 122)
LetterIndex(c) == IF c >= 97 THEN c - 97 ELSE c - 65
\* a is n / d rounded to the nearest integer, halves up (d > 0)
IsRounded(a, n, d) == 2 * d * a <= 2 * n + d /\ 2 * d * a > 2 * n - d

\* C18: the angle of the letter with index i, in either case, is
\* 2 * i * 360 / 52 rounded; it is strictly increasing in i, 0 for A and 346
\* for Z; and every letter of a generated text turns the heading by its angle
LetterAngles ==
    /\ \A i \in 0 .. 25 : \A c \in {65 + i, 97 + i} :
           /\ getDegreeForChar(c) # None
           /\ IsRounded(getDegreeForChar(c)[1], 2 * i * 360, 52)
    /\ \A i \in 0 .. 24 : getDegreeForChar(65 + i)[1] < getDegreeForChar(66 + i)[1]
    /\ getDegreeForChar(65) = Some(0)
    /\ getDegreeForChar(90) = Some(346)
    /\ genResult # None =>
           \A k \in 2 .. Len(genResult[1].points) :
               LET pt == genResult[1].points[k]
                   turn == pt.angle - genResult[1].points[k - 1].angle
               IN  IF IsLetter(pt.char[1])
                   THEN IsRounded(turn, 2 * LetterIndex(pt.char[1]) * 360, 52)
                   ELSE pt.char[1] = 32 => turn = 0

\* the text "nZ" has been generated: headings 180 and 180 + 346
GeneratedLowerNThenZ ==
    /\ genResult # None
    /\ genArgs.text = <<110, 90>>
    /\ genResult[1].points[2].angle = 180
    /\ genResult[1].points[3].angle = 526

---------------------------------------------------------------------------
\* Properties of the layer list

\* C17: the layer list is never empty, and a delete issued when exactly one
\* layer exists leaves the layer list and the active layer id as they were
LayersNeverEmpty ==
    /\ [](Len(layers) >= 1)
    /\ [][\A id \in LayerIds : (Len(layers) = 1 /\ handleDeleteLayer(id)) => UNCHANGED <<layers, activeLayerId>>]_vars

\* a layer was added and the initial layer deleted: one layer is left, and it
\* is the active one
OnlyAddedLayerLeft ==
    /\ Len(layers) = 1
    /\ nEdits = 2
    /\ layers[1].id # 1
    /\ activeLayerId = layers[1].id

---------------------------------------------------------------------------
\* Properties of a single zoom

\* the factor of a zoom of the given kind
ZoomFactor(kind) ==
    IF kind = "wheelIn" THEN Rat(9, 10)
    ELSE IF kind = "wheelOut" THEN Rat(11, 10)
    ELSE IF kind = "buttonIn" THEN Rat(8, 10)
    ELSE Rat(12, 10)

\* C20: every zoom, by the wheel (0.9, 1.1) or by a button (0.8, 1.2),
\* multiplies the width and the height of the view box by its factor and
\* leaves the centre of the view box where it was
ZoomScalesAboutCentre ==
    \A i \in 1 .. Len(zoomLog) :
        \E before \in {zoomLog[i].before}, after \in {zoomLog[i].after}, f \in {ZoomFactor(zoomLog[i].kind)} :
            /\ after[3] = RMul(before[3], f)
            /\ after[4] = RMul(before[4], f)
            /\ Centre(after) = Centre(before)

\* the initial framing was zoomed by the wheel and then by a button, and the
\* view box is the one the button left
ZoomedByWheelThenButton ==
    /\ Len(zoomLog) = 2
    /\ zoomLog[1].kind \in {"wheelIn", "wheelOut"}
    /\ zoomLog[2].kind \in {"buttonIn", "buttonOut"}
    /\ zoomLog[1].before = autoFitEffect(TRUE, InitialLayers, InitialViewBox)
    /\ zoomLog[2].before = zoomLog[1].after
    /\ viewBox = zoomLog[2].after
    /\ viewBox[3] # zoomLog[1].before[3]

---------------------------------------------------------------------------
\* Properties of the memoized geometry

\* the step runs the preparedLayers factory, which generates the path of
\* every visible layer, the layer id among them
Regenerated(id) ==
    /\ memoRuns' > memoRuns
    /\ \E i \in 1 .. Len(layers') : layers'[i].id = id /\ layers'[i].visible

\* the step changes what the geometry of layer id is computed from: its text
\* or its segment length, or the layer is new, or it was hidden
InputsChanged(id) ==
    \/ findLayer(layers, id) = None
    \/ findLayer(layers', id) = None
    \/ ~findLayer(layers, id)[1].visible
    \/ findLayer(layers', id)[1].text # findLayer(layers, id)[1].text
    \/ findLayer(layers', id)[1].segmentLength # findLayer(layers, id)[1].segmentLength

\* C19: the geometry of a layer is regenerated if and only if its text or its
\* segment length changed; a change of its position, of the camera or of
\* another layer does not regenerate it
RegeneratedIffInputsChanged ==
    [][\A id \in LayerIds :
          /\ Regenerated(id) => InputsChanged(id)
          /\ (InputsChanged(id) /\ \E i \in 1 .. Len(layers') : layers'[i].id = id /\ layers'[i].visible)
                => Regenerated(id)]_vars

---------------------------------------------------------------------------
\* Properties of the loop controller

\* a step that runs an interval callback
TickStep == nTicks' = nTicks + 1
\* the step gives layer number i a new text
Appended(i) == i <= Len(layers') /\ layers'[i].text # layers[i].text
\* the end of the path of layer l is within 0.5 of the origin
EndsNearOrigin(l) == nearOrigin(generatePathData(l.text, l.segmentLength).endPoint)

\* C11: a tick whose new text is no longer than 4 times the seed, or no
\* longer than 40, never takes the closed-loop stop, wherever the path ends:
\* it leaves the layer's position alone and, below the ceiling, the loop running
NoEarlyClosure ==
    [][\A i \in 1 .. Len(layers) :
          (TickStep /\ Appended(i) /\ (Len(layers'[i].text) <= 4 * Len(loopSeedRef) \/ Len(layers'[i].text) <= 40))
              => /\ layers'[i].x = layers[i].x
                 /\ layers'[i].y = layers[i].y
                 /\ Len(layers'[i].text) <= 8000 => (isLooping' /\ timers' = timers)]_vars

\* a tick with seed "N" has made a text of 40 characters whose path ends at
\* the origin, and the loop is still running
AtOriginTooEarly ==
    /\ isLooping
    /\ timers # {}
    /\ nTicks >= 1
    /\ loopSeedRef = <<78>>
    /\ \E i \in 1 .. Len(layers) :
          /\ layers[i].id = activeLayerId
          /\ layers[i].text = Repeat(78, 40)
          /\ generatePathData(layers[i].text, layers[i].segmentLength).endPoint = [x |-> RI(0), y |-> RI(0)]

\* C12: the loop starts only on an active layer with text, taking that text
\* as seed and cursor 0; while the active text is empty and no loop runs, no
\* step sets the flag, creates a timer or changes seed or cursor
StartNeedsText ==
    /\ [](isLooping => loopSeedRef # <<>>)
    /\ [][/\ (~isLooping /\ isLooping')
              => (activeLayer.text # <<>> /\ loopSeedRef' = activeLayer.text /\ loopIndexRef' = 0 /\ layers' = layers)
          /\ (~isLooping /\ activeLayer.text = <<>>)
              => (~isLooping' /\ timers' = {} /\ loopIntervalRef' = None
                  /\ loopSeedRef' = loopSeedRef /\ loopIndexRef' = loopIndexRef)]_vars

\* a loop ran with seed "N" and was stopped; then a layer was added, so the
\* active text is empty: nothing runs and seed and cursor are the old ones
NothingToStartOn ==
    /\ ~isLooping
    /\ activeLayer.text = <<>>
    /\ timers = {}
    /\ loopSeedRef = <<78>>
    /\ loopIndexRef >= 1

\* C13: a tick whose new text is longer than 4 times the seed and than 40,
\* and whose path ends within 0.5 of the origin, stops the timer and places
\* the layer so that its box is symmetric about the origin
ClosureCentres ==
    [][\A i \in 1 .. Len(layers) :
          (TickStep /\ Appended(i) /\ Len(layers'[i].text) > 4 * Len(loopSeedRef) /\ Len(layers'[i].text) > 40
                /\ EndsNearOrigin(layers'[i]))
              => /\ ~isLooping'
                 /\ timers' = {}
                 /\ loopIntervalRef' = None
                 /\ \E b \in {generatePathData(layers'[i].text, layers'[i].segmentLength).bounds} :
                       /\ RAdd(b.minX, layers'[i].x) = RNeg(RAdd(b.maxX, layers'[i].x))
                       /\ RAdd(b.minY, layers'[i].y) = RNeg(RAdd(b.maxY, layers'[i].y))]_vars

\* the third tick has closed the loop at 42 times "N": stopped, the layer
\* moved by 5 to the right of where the path was generated
ClosedAndCentred ==
    /\ ~isLooping
    /\ timers = {}
    /\ nTicks = 3
    /\ \E i \in 1 .. Len(layers) :
          /\ layers[i].text = Repeat(78, 42)
          /\ layers[i].x = RI(5)
          /\ layers[i].y = RI(0)

\* a tick whose new text is longer than 8000 stops the timer; when it is not a
\* closed-loop stop the position stays; and the text a loop started on with
\* at most 8000 characters never has more than 8001
CeilingStops ==
    /\ [](\A i \in 1 .. Len(layers) :
             (layers[i].id = loopStart.id /\ loopStart.len <= 8000) => Len(layers[i].text) <= 8001)
    /\ [][\A i \in 1 .. Len(layers) :
             (TickStep /\ Appended(i) /\ Len(layers'[i].text) > 8000)
                 => /\ ~isLooping'
                    /\ timers' = {}
                    /\ loopIntervalRef' = None
                    /\ ~(Len(layers'[i].text) > 4 * Len(loopSeedRef) /\ EndsNearOrigin(layers'[i]))
                          => (layers'[i].x = layers[i].x /\ layers'[i].y = layers[i].y)]_vars

\* C14: with the interval firing fairly, a running loop eventually stops; it
\* is stopped by the first tick whose new text is longer than 8000, so the
\* text a loop started on with at most 8000 characters never has more than
\* 8001; and a ceiling stop leaves the layer's position alone
LoopAlwaysStops == (isLooping ~> ~isLooping) /\ CeilingStops

\* a loop that started on 7999 characters was stopped by its second tick, at
\* 8001 characters, where it started
StoppedAtCeiling ==
    /\ ~isLooping
    /\ timers = {}
    /\ nTicks = 2
    /\ loopStart.len = 7999
    /\ loopIndexRef = 2
    /\ Len(layers) = 1
    /\ Len(layers[1].text) = 8001
    /\ layers[1].x = RI(0)
    /\ layers[1].y = RI(0)

\* C15: while the loop is stopped no interval is live and no callback runs,
\* so no text grows until the next start; every stop leaves no interval; and
\* stopLoop called again changes nothing
StopHaltsTicks ==
    /\ [](~isLooping => (timers = {} /\ loopIntervalRef = None))
    /\ [](\E once \in {stopLoop(isLooping, timers, loopIntervalRef)} :
             /\ stopLoop(FALSE, once.timers, once.ref) = once
             /\ ~isLooping => once = [timers |-> timers, ref |-> loopIntervalRef])
    /\ [][/\ ~isLooping => ~TickStep
          /\ (isLooping /\ ~isLooping') => (timers' = {} /\ loopIntervalRef' = None)]_vars

\* the Stop button has stopped a loop with seed "N" after its first tick
StoppedByHand ==
    /\ ~isLooping
    /\ timers = {}
    /\ nTicks = 1
    /\ loopSeedRef = <<78>>
    /\ loopIndexRef = 1
    /\ Len(layers) = 1
    /\ layers[1].text = <<78, 78>>

\* C16: at most one interval is live; it is live exactly while the loop runs,
\* it is the one the ref holds and it feeds the active layer; and while the
\* loop runs no step changes the seed or moves the cursor back
OneTimer ==
    /\ [](Cardinality(timers) <= 1)
    /\ [](isLooping <=> timers # {})
    /\ [](\A t \in timers : loopIntervalRef = Some(t.id) /\ t.target = activeLayerId)
    /\ [][isLooping => (loopSeedRef' = loopSeedRef /\ loopIndexRef' >= loopIndexRef)]_vars

\* the loop started on layer 1 and the other layer was selected while it
\* ran: one interval, feeding layer 2 from the seed of layer 1
RetargetedWhileRunning ==
    /\ isLooping
    /\ Len(layers) = 2
    /\ nEdits = 0
    /\ activeLayerId = 2
    /\ loopStart.id = 1
    /\ loopSeedRef = <<78>>
    /\ timers = {[id |-> 1, target |-> 2]}

---------------------------------------------------------------------------
\* Properties of the active layer id

\* C26: the active layer id is the id of a layer of the list, and a delete of
\* the active layer makes the first remaining layer the active one
ActiveLayerPresent ==
    /\ [](findLayer(layers, activeLayerId) # None)
    /\ [][(Len(layers') < Len(layers) /\ findLayer(layers', activeLayerId) = None)
             => activeLayerId' = layers'[1].id]_vars

\* a layer was added, which made it the active one, and deleted again: the
\* initial layer is the active one
ActiveLayerDeleted ==
    /\ nEdits = 2
    /\ memoRuns = 3
    /\ layers = InitialLayers
    /\ activeLayerId = 1
    /\ Idle
    /\ zoomLog = <<>>

---------------------------------------------------------------------------
\* Properties of the loop's target

\* C25: every tick appends to the layer the loop was started on; a select,
\* an add or a delete while the loop runs makes no tick change the text of
\* another layer
TicksFeedStartLayer ==
    [][\A i \in 1 .. Len(layers) : (TickStep /\ Appended(i)) => layers[i].id = loopStart.id]_vars

\* the first n characters of seed repeated without end
Cycled(seed, n) == [j \in 1 .. n |-> seed[((j - 1) % Len(seed)) + 1]]

\* C22: each tick advances the cursor by one and appends one character, the
\* seed's character at the cursor, so the text of the layer the loop was
\* started on is its text at the start (the seed) followed by as many
\* characters of the repeated seed as the cursor counts, whatever adds,
\* deletes and selects happen between the ticks
TextIsSeedCycled ==
    /\ [](\A i \in 1 .. Len(layers) :
             layers[i].id = loopStart.id
                 => layers[i].text = Cycled(loopSeedRef, Len(loopSeedRef) + loopIndexRef))
    /\ [][TickStep => loopIndexRef' = loopIndexRef + 1]_vars

\* C24: a pointer move handled while the camera is being panned leaves the
\* width and the height of the view box as they were just before the move,
\* also when a zoom changed them after the pan had started
PanKeepsViewSize ==
    [][(panState # None /\ HandledMove)
          => (viewBox'[3] = viewBox[3] /\ viewBox'[4] = viewBox[4])]_vars

\* a pointer-move handled in layer-drag mode
DragMove == HandledMove /\ moveLog'[Len(moveLog')].mode = "drag"

\* C23: every delta a drag applies to the layer is the pointer's displacement
\* since the previous pointer event divided by the screen scale, so each
\* movement is counted once and the deltas add up to the net displacement
\* since the drag started, also when a pointer-move is handled before the
\* previous one's anchor update was rendered
DragDeltasIncremental ==
    [][(dragState # None /\ DragMove)
          => \E rect \in RectSizes : \E s \in {getScreenCTM(viewBox, rect).a} :
                \A i \in 1 .. Len(layers) :
                    layers[i].id = dragState[1].id
                        => /\ layers'[i].x = RAdd(layers[i].x, RDiv(RI(mouse'[1] - mouse[1]), s))
                           /\ layers'[i].y = RAdd(layers[i].y, RDiv(RI(mouse'[2] - mouse[2]), s))]_vars

\* the box of layer l on the plane: the bounds of its path, offset by its position
LayerBox(l) ==
    CHOOSE r \in {[minX |-> RAdd(b.minX, l.x), maxX |-> RAdd(b.maxX, l.x),
                    minY |-> RAdd(b.minY, l.y), maxY |-> RAdd(b.maxY, l.y)] :
                      b \in {generatePathData(l.text, l.segmentLength).bounds}} : TRUE

VisibleBoxes == {LayerBox(layers[i]) : i \in {j \in 1 .. Len(layers) : layers[j].visible}}

RLe(a, b) == ~RLt(b, a)

\* the padding of an axis of extent e
Padding(e) == IF RLt(RI(100), RMul(e, Rat(15, 100))) THEN RMul(e, Rat(15, 100)) ELSE RI(100)

\* vb is the interval [lo, hi] with the padding of its extent on both sides
PaddedAxis(origin, size, lo, hi) ==
    /\ origin = RSub(lo, Padding(RSub(hi, lo)))
    /\ size = RAdd(RSub(hi, lo), RMul(RI(2), Padding(RSub(hi, lo))))

\* C21: while auto-fit is on, the view box is the union of the boxes of the
\* visible layers (path bounds offset by the layer's position, hidden layers
\* left out) with padding max(100, 15% of the extent) on each side of each
\* axis; it holds every visible layer with a margin of at least 100 and is at
\* least 100 wide and 100 high
AutoFitFramesVisible ==
    isAutoFit =>
        \E boxes \in {VisibleBoxes} :
            /\ boxes # {} =>
                  /\ PaddedAxis(viewBox[1], viewBox[3], RMinOf({b.minX : b \in boxes}), RMaxOf({b.maxX : b \in boxes}))
                  /\ PaddedAxis(viewBox[2], viewBox[4], RMinOf({b.minY : b \in boxes}), RMaxOf({b.maxY : b \in boxes}))
            /\ \A b \in boxes :
                  /\ RLe(RAdd(viewBox[1], RI(100)), b.minX)
                  /\ RLe(RAdd(b.maxX, RI(100)), RAdd(viewBox[1], viewBox[3]))
                  /\ RLe(RAdd(viewBox[2], RI(100)), b.minY)
                  /\ RLe(RAdd(b.maxY, RI(100)), RAdd(viewBox[2], viewBox[4]))
            /\ RLe(RI(100), viewBox[3])
            /\ RLe(RI(100), viewBox[4])

=============================================================================
